---- MODULE Spec2Model ----
(***************************************************************************)
(* Intersophia FAQ: the active-question coordinator of the three versions  *)
(* of the page script kept in the repository:                              *)
(*   "v2"   src/unnamed/part_000 lines 1-1112    (CONFIG, state.questions) *)
(*   "v1"   src/unnamed/part_000 lines 1115-1861 (flatList/questionMap)    *)
(*   "main" src/assets/js/main.js                (flatQuestions)           *)
(* JavaScript strings are sequences of one-character strings, so that      *)
(* prefixing, slicing, trimming and percent-encoding are computed.  null   *)
(* and the empty string are both the empty sequence: every test the code   *)
(* makes on an id or a hash is a truthiness test.                          *)
(***************************************************************************)
EXTENDS Integers, Sequences, FiniteSets, TLC

VARIABLES variant, phase, FAQ, questions, sections, activeId, hash,
          sidebar, accordion, elements, viewer, pending, mobile,
          reducedMotion, last, legacy, wrote, glow, icons, measured,
          formatting

vars == <<variant, phase, FAQ, questions, sections, activeId, hash,
          sidebar, accordion, elements, viewer, pending, mobile,
          reducedMotion, last, legacy, wrote, glow, icons,
          measured, formatting>>

\* ------------------------------------------------------------------ bounds
\* items of a document, over all its sections
MaxItems == 2
\* callbacks of one target (the viewer, one icon) waiting for their timer
MaxPending == 1
\* lines of a text handed to formatBulletPoints
MaxLines == 3

\* ----------------------------------------------------------------- strings
NULL == <<>>

Truthy(s) == s # <<>>

Variants == {"v2", "v1", "main"}

ID_AB == <<"a", " ", "b">>
ID_QAB == <<"q", "-", "a", " ", "b">>
ID_KIM == <<"k", "i", "m", "-", "j", "e", "s", "t", "e", "s", "m", "y">>

\* ids an item of the document may carry; NULL is a missing (falsy) id
IdPool == {ID_AB, ID_QAB, ID_KIM}

STATIC_ACCORDION_IDS == {ID_KIM}

\* ids with a social-icon mapping: part_000 lines 47-51 (v2) and 1122-1126
\* (v1) name different ids; main.js has no mapping
ID_SPOTKANIACH ==
  <<"j", "a", "k", "-", "s", "i", "e", "-", "d", "o", "w", "i", "e", "m",
    "-", "o", "-", "s", "p", "o", "t", "k", "a", "n", "i", "a", "c", "h">>
ID_MOGE_KONTAKT ==
  <<"j", "a", "k", "-", "m", "o", "g", "e", "-", "z", "l", "a", "p", "a",
    "c", "-", "k", "o", "n", "t", "a", "k", "t">>
ID_ONENOTE ==
  <<"d", "o", "-", "c", "z", "e", "g", "o", "-", "u", "z", "y", "w", "a",
    "c", "i", "e", "-", "o", "n", "e", "n", "o", "t", "e">>
ID_SPOTKANIU ==
  <<"j", "a", "k", "-", "d", "o", "w", "i", "e", "m", "-", "s", "i", "e",
    "-", "o", "-", "s", "p", "o", "t", "k", "a", "n", "i", "u">>
ID_KONTAKT ==
  <<"j", "a", "k", "-", "z", "l", "a", "p", "a", "c", "-", "k", "o", "n",
    "t", "a", "k", "t">>
ID_NOTES ==
  <<"c", "o", "-", "t", "o", "-", "w", "s", "p", "o", "l", "n", "y", "-",
    "n", "o", "t", "e", "s">>

NoMapping == <<>>

\* Map.get: the icon indices of an id, NoMapping for undefined
SOCIAL_GLOW_MAPPING(v, id) ==
  IF v = "v2"
  THEN (IF id = ID_SPOTKANIACH THEN <<0, 1>>
        ELSE IF id = ID_MOGE_KONTAKT THEN <<1>>
        ELSE IF id = ID_ONENOTE THEN <<2>> ELSE NoMapping)
  ELSE IF v = "v1"
  THEN (IF id = ID_SPOTKANIU THEN <<0, 1>>
        ELSE IF id = ID_KONTAKT THEN <<1>>
        ELSE IF id = ID_NOTES THEN <<2>> ELSE NoMapping)
  ELSE NoMapping

\* the .icon-btn elements of the .socials-desktop and .socials-mobile rows
\* (0 = Facebook, 1 = Messenger, 2 = OneNote)
SocialIcons == {"desktop", "mobile"} \X {0, 1, 2}

Q_PREFIX == <<"q", "-">>

\* String.prototype.startsWith
StartsWith(s, p) == Len(s) >= Len(p) /\ SubSeq(s, 1, Len(p)) = p

\* String.prototype.slice(n)
Slice(s, n) == SubSeq(s, n + 1, Len(s))

RECURSIVE TrimStart(_)
TrimStart(s) == IF s # <<>> /\ Head(s) = " " THEN TrimStart(Tail(s)) ELSE s

RECURSIVE TrimEnd(_)
TrimEnd(s) ==
  IF s # <<>> /\ s[Len(s)] = " " THEN TrimEnd(SubSeq(s, 1, Len(s) - 1)) ELSE s

\* String.prototype.trim
Trim(s) == TrimEnd(TrimStart(s))

\* characters encodeURIComponent escapes, with their escapes
Escaped == {" ", "%"}

EscapeOf(c) == IF c = " " THEN <<"%", "2", "0">> ELSE <<"%", "2", "5">>

RECURSIVE encodeURIComponent(_)
encodeURIComponent(s) ==
  IF s = <<>> THEN <<>>
  ELSE (IF Head(s) \in Escaped THEN EscapeOf(Head(s)) ELSE <<Head(s)>>)
       \o encodeURIComponent(Tail(s))

\* decodeURIComponent throws a URIError on a '%' that does not start an escape
RECURSIVE Decodable(_)
Decodable(s) ==
  IF s = <<>> THEN TRUE
  ELSE IF Head(s) = "%"
       THEN /\ Len(s) >= 3
            /\ \E c \in Escaped : SubSeq(s, 1, 3) = EscapeOf(c)
            /\ Decodable(Slice(s, 3))
       ELSE Decodable(Tail(s))

RECURSIVE decodeURIComponent(_)
decodeURIComponent(s) ==
  IF s = <<>> THEN <<>>
  ELSE IF Head(s) = "%"
       THEN <<CHOOSE c \in Escaped : SubSeq(s, 1, 3) = EscapeOf(c)>>
            \o decodeURIComponent(Slice(s, 3))
       ELSE <<Head(s)>> \o decodeURIComponent(Tail(s))

\* -------------------------------------------------------------------- text
\* a value handed to formatBulletPoints or written as markup: a string, kept
\* as its lines (what split('\n') returns; no line stands for ''), or a value
\* that is not a string (its lines are then its printed form)
Str(lines) == [isString |-> TRUE, lines |-> lines]

NotStr(lines) == [isString |-> FALSE, lines |-> lines]

BULLET == <<"*", " ">>

\* `<ul>${listItems}</ul>` with listItems the joined `<li>${item}</li>`
RECURSIVE ListItems(_)
ListItems(items) ==
  IF items = <<>> THEN <<>>
  ELSE <<"<li>">> \o Head(items) \o <<"</li>">> \o ListItems(Tail(items))

UlOf(currentList) == <<"<ul>">> \o ListItems(currentList) \o <<"</ul>">>

\* mutant: a list is closed after every bullet line
RECURSIVE formatLines_listPerLine(_, _, _, _)
formatLines_listPerLine(lines, result, inList, currentList) ==
  IF lines = <<>> THEN result
  ELSE LET line == Head(lines)
           trimmed == Trim(line)
       IN IF StartsWith(trimmed, BULLET)
          THEN formatLines_listPerLine(
                 Tail(lines), Append(result, UlOf(<<Trim(Slice(trimmed, 2))>>)),
                 FALSE, <<>>)
          ELSE formatLines_listPerLine(
                 Tail(lines),
                 IF trimmed # <<>> THEN Append(result, line) ELSE result,
                 FALSE, <<>>)

\* the loop of formatBulletPoints over the lines, with its closing step
RECURSIVE formatLines(_, _, _, _)
formatLines(lines, result, inList, currentList) ==
  IF lines = <<>>
  THEN IF inList /\ Len(currentList) > 0
       THEN Append(result, UlOf(currentList)) ELSE result
  ELSE LET line == Head(lines)
           trimmed == Trim(line)
       IN IF StartsWith(trimmed, BULLET)
          THEN formatLines(Tail(lines), result, TRUE,
                           Append(IF inList THEN currentList ELSE <<>>,
                                  Trim(Slice(trimmed, 2))))
          ELSE LET closed == IF inList THEN Append(result, UlOf(currentList))
                             ELSE result
               IN formatLines(Tail(lines),
                              IF trimmed # <<>> THEN Append(closed, line)
                              ELSE closed,
                              FALSE, <<>>)

\* result.join('\n'): the lines of the joined string
formatBulletPoints(text) ==
  IF ~text.isString \/ text.lines = <<>> THEN text
  ELSE Str(formatLines(text.lines, <<>>, FALSE, <<>>))

\* a call of formatBulletPoints: its argument and, once it has returned, its
\* value.  Spec applies the function to the answers of its documents and
\* leaves this record alone; SpecFormat calls it on the texts of FormatInputs.
NoCall == [text |-> Str(<<>>), returned |-> FALSE, result |-> Str(<<>>)]

\* lines: two bullets (one indented, with blanks around its text), a blank
\* line, a line of blanks, a line of text, and an asterisk with nothing
\* after its blank
LinePool ==
  { <<"*", " ", "x">>, <<" ", "*", " ", "y", " ">>, <<>>, <<" ">>, <<"t">>,
    <<"*", " ">> }

RECURSIVE LineLists(_)
LineLists(n) ==
  IF n = 0 THEN {<<>>}
  ELSE LET shorter == LineLists(n - 1)
       IN shorter \cup {Append(ls, l) : ls \in shorter, l \in LinePool}

\* strings of at most MaxLines lines (the string of one empty line is ''),
\* and two values that are not strings: a number and null
FormatInputs ==
  {Str(ls) : ls \in LineLists(MaxLines) \ {<< <<>> >>}}
  \cup {NotStr(<< <<"5">> >>), NotStr(<<>>)}

\* ---------------------------------------------------------------- document
\* item lists of at most n ids
RECURSIVE IdLists(_)
IdLists(n) ==
  IF n = 0 THEN {<<>>}
  ELSE LET shorter == IdLists(n - 1)
       IN shorter \cup {Append(l, i) : l \in shorter, i \in IdPool \cup {NULL}}

\* documents of no section, of one section of at most MaxItems items, and of
\* two sections of at most one item each
Shapes ==
  {<<>>}
  \cup {<<l>> : l \in IdLists(MaxItems)}
  \cup {<<a, b>> : a \in IdLists(1), b \in IdLists(1)}

\* the question of the i-th item of the s-th section
TextOf(s, i) == 10 * s + i

Digit(n) == <<"0", "1", "2", "3", "4", "5", "6", "7", "8", "9">>[n + 1]

\* the answer of the i-th item of the s-th section: one line of text, or two
\* bullet lines, a blank line and a line of text
AnswerOf(s, i) ==
  IF (s + i) % 2 = 0
  THEN Str(<< <<"t", Digit(s), Digit(i)>> >>)
  ELSE Str(<< <<"*", " ", "x">>, <<" ", "*", " ", Digit(s), Digit(i)>>, <<>>,
              <<"t", Digit(s), Digit(i)>> >>)

\* assets/faq-data.json: [{section, items: [{id, q, a}]}]
DocOf(shape) ==
  [s \in 1..Len(shape) |->
     [section |-> s,
      items |-> [i \in 1..Len(shape[s]) |->
                   [id |-> shape[s][i], q |-> TextOf(s, i), a |-> AnswerOf(s, i)]]]]

\* one-section documents with a question that has a social-icon mapping
\* in v2 (ID_SPOTKANIACH) or in v1 (ID_KONTAKT)
RECURSIVE GlowLists(_)
GlowLists(n) ==
  IF n = 0 THEN {<<>>}
  ELSE LET shorter == GlowLists(n - 1)
       IN shorter \cup {Append(l, i) : l \in shorter,
                                        i \in {ID_SPOTKANIACH, ID_KONTAKT, ID_AB}}

GlowShapes ==
  {<<l>> : l \in {g \in GlowLists(MaxItems) :
                    \E k \in 1..Len(g) : g[k] \in {ID_SPOTKANIACH, ID_KONTAKT}}}

Docs == {DocOf(shape) : shape \in Shapes \cup GlowShapes}

\* the items of a document in document order, each with its section
RECURSIVE FlatItems(_)
FlatItems(doc) ==
  IF doc = <<>> THEN <<>>
  ELSE [i \in 1..Len(Head(doc).items) |->
          [id |-> Head(doc).items[i].id, section |-> Head(doc).section,
           question |-> Head(doc).items[i].q, answer |-> Head(doc).items[i].a]]
       \o FlatItems(Tail(doc))

\* ------------------------------------------------------------------- index
Has(idx, id) == \E k \in 1..Len(idx) : idx[k].id = id

Get(idx, id) == idx[CHOOSE k \in 1..Len(idx) : idx[k].id = id]

Keys(idx) == {idx[k].id : k \in 1..Len(idx)}

\* mutant: order counts from one
RECURSIVE AcceptV2_oneBased(_, _)
AcceptV2_oneBased(idx, items) ==
  IF items = <<>> THEN idx
  ELSE LET item == Head(items)
       IN IF ~Truthy(item.id) \/ Has(idx, item.id)
          THEN AcceptV2_oneBased(idx, Tail(items))
          ELSE AcceptV2_oneBased(
                 Append(idx, [id |-> item.id, section |-> item.section,
                              question |-> item.question,
                              answer |-> item.answer, order |-> Len(idx) + 1]),
                 Tail(items))

\* part_000 v2: first id wins, order is the size of the map at acceptance
RECURSIVE AcceptV2(_, _)
AcceptV2(idx, items) ==
  IF items = <<>> THEN idx
  ELSE LET item == Head(items)
       IN IF ~Truthy(item.id) \/ Has(idx, item.id)
          THEN AcceptV2(idx, Tail(items))
          ELSE AcceptV2(Append(idx, [id |-> item.id, section |-> item.section,
                                     question |-> item.question,
                                     answer |-> item.answer, order |-> Len(idx)]),
                        Tail(items))

\* part_000 v1: first id wins, flatList and questionMap hold the same entries
RECURSIVE AcceptV1(_, _)
AcceptV1(idx, items) ==
  IF items = <<>> THEN idx
  ELSE LET item == Head(items)
       IN IF ~Truthy(item.id) \/ Has(idx, item.id)
          THEN AcceptV1(idx, Tail(items))
          ELSE AcceptV1(Append(idx, item), Tail(items))

\* main.js: every item with a truthy id is pushed, duplicates included
RECURSIVE AcceptMain(_, _)
AcceptMain(idx, items) ==
  IF items = <<>> THEN idx
  ELSE IF ~Truthy(Head(items).id)
       THEN AcceptMain(idx, Tail(items))
       ELSE AcceptMain(Append(idx, Head(items)), Tail(items))

\* v2 caches, per section, the entries accepted while that section was read
RECURSIVE ProcessV2(_, _)
ProcessV2(idx, secs) ==
  IF secs = <<>> THEN [questions |-> idx, processedSections |-> <<>>]
  ELSE LET grown == AcceptV2(idx, FlatItems(<<Head(secs)>>))
           rest == ProcessV2(grown, Tail(secs))
       IN [questions |-> rest.questions,
           processedSections |->
             <<[section |-> Head(secs).section, items |-> Head(secs).items,
                validItems |-> SubSeq(grown, Len(idx) + 1, Len(grown))]>>
             \o rest.processedSections]

buildQuestionIndex(v, doc) ==
  CASE v = "v2" -> ProcessV2(<<>>, doc).questions
    [] v = "v1" -> AcceptV1(<<>>, FlatItems(doc))
    [] OTHER -> AcceptMain(<<>>, FlatItems(doc))

\* v1 looks every item of the section up in the map: a repeated id is listed
\* once per occurrence
RECURSIVE ValidItemsV1(_, _)
ValidItemsV1(idx, items) ==
  IF items = <<>> THEN <<>>
  ELSE (IF Has(idx, Head(items).id) THEN <<Get(idx, Head(items).id)>> ELSE <<>>)
       \o ValidItemsV1(idx, Tail(items))

\* main.js renders every item with a truthy id
ValidItemsMain(items) == SelectSeq(items, LAMBDA it : Truthy(it.id))

getValidItems(v, idx, sec) ==
  CASE v = "v2" -> sec.validItems
    [] v = "v1" -> ValidItemsV1(idx, FlatItems(<<sec>>))
    [] OTHER -> ValidItemsMain(FlatItems(<<sec>>))

\* the entries rendered by renderDesktop and renderMobile, in rendering order
RECURSIVE Rendered(_, _, _)
Rendered(v, idx, secs) ==
  IF secs = <<>> THEN <<>>
  ELSE getValidItems(v, idx, Head(secs)) \o Rendered(v, idx, Tail(secs))

\* --------------------------------------------------------------------- DOM
\* a .side-link button of the sidebar
SideLink(entry) == [id |-> entry.id, active |-> FALSE, ariaCurrent |-> "none"]

\* an .acc-item of the accordion (trigger button and panel), or, in the
\* part_000 versions, the static block of an id of STATIC_ACCORDION_IDS
\* body.innerHTML: v2 passes the answer through formatBulletPoints
AccBody(v, entry) ==
  IF v = "v2" THEN formatBulletPoints(entry.answer) ELSE entry.answer

createAccordionItem(v, entry) ==
  [kind |-> "item", id |-> entry.id, open |-> FALSE, ariaExpanded |-> "false",
   ariaHidden |-> IF v = "main" THEN "none" ELSE "true",
   answer |-> AccBody(v, entry)]

createStaticAccordionBlock(v, entry) ==
  [kind |-> "static", id |-> entry.id, open |-> FALSE, ariaExpanded |-> "none",
   ariaHidden |-> "none", answer |-> AccBody(v, entry)]

\* Map.set in rendering order: the last element rendered for an id is kept
LastOf(dom, id) ==
  CHOOSE k \in 1..Len(dom) :
    /\ dom[k].id = id
    /\ \A j \in (k + 1)..Len(dom) : dom[j].id # id

FirstOf(dom, id) ==
  CHOOSE k \in 1..Len(dom) :
    /\ dom[k].id = id
    /\ \A j \in 1..(k - 1) : dom[j].id # id

SidebarDom(v, idx, secs) ==
  LET es == Rendered(v, idx, secs) IN [k \in 1..Len(es) |-> SideLink(es[k])]

AccordionDom(v, idx, secs) ==
  LET es == Rendered(v, idx, secs)
  IN [k \in 1..Len(es) |->
        IF v # "main" /\ es[k].id \in STATIC_ACCORDION_IDS
        THEN createStaticAccordionBlock(v, es[k])
        ELSE createAccordionItem(v, es[k])]

\* state.elements.sidebar / state.elements.accordion (v2) and
\* state.sidebarButtons / state.accordionItems (v1): id -> position in the DOM
SidebarMap(dom) == [id \in {dom[k].id : k \in 1..Len(dom)} |-> LastOf(dom, id)]

AccordionMap(dom) ==
  [id \in {dom[k].id : k \in {j \in 1..Len(dom) : dom[j].kind = "item"}}
     |-> LastOf(dom, id)]

NoElements == [sidebar |-> <<>>, accordion |-> <<>>]

\* the part of the page the handlers read and write
Cur ==
  [questions |-> questions, elements |-> elements, activeId |-> activeId,
   hash |-> hash, sidebar |-> sidebar, accordion |-> accordion,
   viewer |-> viewer, pending |-> pending, wrote |-> "none", glow |-> {},
   measured |-> {}]

\* what innerHTML of the viewer is set to; `articles` counts the .question
\* elements of the markup
Article(entry) ==
  [kind |-> "article", id |-> entry.id, answer |-> entry.answer, articles |-> 1]

Message(kind) == [kind |-> kind, id |-> NULL, answer |-> Str(<<>>), articles |-> 0]

\* mutant: the article is inserted after what the viewer holds
updateDesktopQuestionContent_appends(v, entry) ==
  [Article(entry) EXCEPT !.articles = v.articles + 1]

\* dom.viewer.innerHTML = `<article class="question" ...>`: what the viewer
\* `v` held is replaced
updateDesktopQuestionContent(v, entry) == Article(entry)

\* ------------------------------------------------------------ panel, views
collapsePanel(node) ==
  [node EXCEPT !.open = FALSE, !.ariaExpanded = "false",
               !.ariaHidden = IF variant = "main" THEN @ ELSE "true"]

\* mutant: the attributes are flipped but the panel does not get the open class
expandPanel_ariaOnly(node) ==
  [node EXCEPT !.ariaExpanded = "true",
               !.ariaHidden = IF variant = "main" THEN @ ELSE "false"]

expandPanel(node) ==
  [node EXCEPT !.open = TRUE, !.ariaExpanded = "true",
               !.ariaHidden = IF variant = "main" THEN @ ELSE "false"]

\* collapse every open panel among `others`, open the panel at `target`
CollapseOthersOpen(acc, others, target) ==
  [k \in 1..Len(acc) |->
     IF k \in others /\ acc[k].open THEN collapsePanel(acc[k])
     ELSE IF k = target /\ ~acc[k].open THEN expandPanel(acc[k])
     ELSE acc[k]]

syncMobileAccordion(st, id) ==
  LET acc == st.accordion
      map == st.elements.accordion
  IN IF variant = "main"
     THEN IF ~Truthy(id) \/ ~(\E k \in 1..Len(acc) : acc[k].id = id) THEN st
          ELSE LET t == FirstOf(acc, id)
               IN [st EXCEPT !.accordion =
                     CollapseOthersOpen(acc, (1..Len(acc)) \ {t}, t)]
     ELSE IF ~Truthy(id) \/ DOMAIN map = {} THEN st
          ELSE IF id \notin DOMAIN map THEN st
          ELSE [st EXCEPT !.accordion =
                  CollapseOthersOpen(acc,
                                     {map[q] : q \in (DOMAIN map) \ {id}},
                                     map[id])]

updateSidebarActive(st, id) ==
  LET sb == st.sidebar
      map == st.elements.sidebar
      touched == IF variant = "main" THEN 1..Len(sb)
                 ELSE {map[q] : q \in DOMAIN map}
  IN [st EXCEPT !.sidebar =
        [k \in 1..Len(sb) |->
           IF k \in touched
           THEN [sb[k] EXCEPT !.active = (sb[k].id = id),
                              !.ariaCurrent = IF sb[k].id = id THEN "true"
                                              ELSE "false"]
           ELSE sb[k]]]

\* v2: dom.viewer.children.length > 0 and no .loading-skeleton inside
hasExistingContent(v) == v.kind \notin {"skeleton", "blank"}

\* v2 defers the update by a 150 ms timer when content fades out first
renderDesktopQuestion(st, id) ==
  IF ~Has(st.questions, id) THEN st
  ELSE IF variant = "v2" /\ hasExistingContent(st.viewer) /\ ~reducedMotion
       THEN [st EXCEPT !.pending = Append(@, id)]
       ELSE [st EXCEPT !.viewer =
               updateDesktopQuestionContent(@, Get(st.questions, id))]

\* mutant: the id is written to the fragment without percent-encoding
setHashQuestionId_raw(st, id) ==
  IF ~Truthy(id) THEN st
  ELSE IF st.hash = id THEN st
  ELSE [st EXCEPT !.hash = id,
                  !.wrote = IF legacy THEN "assign" ELSE "replaceState"]

\* mutant: the fragment is rewritten even when it already names the id
setHashQuestionId_always(st, id) ==
  IF ~Truthy(id) THEN st
  ELSE [st EXCEPT !.hash = encodeURIComponent(id),
                  !.wrote = IF legacy THEN "assign" ELSE "replaceState"]

\* mutant: the fragment is written in the prefixed form
setHashQuestionId_prefixed(st, id) ==
  IF ~Truthy(id) THEN st
  ELSE IF st.hash = encodeURIComponent(id) THEN st
  ELSE [st EXCEPT !.hash = Q_PREFIX \o encodeURIComponent(id),
                  !.wrote = IF legacy THEN "assign" ELSE "replaceState"]

\* `legacy` is a browser without history.replaceState: the fragment is
\* assigned, which adds a history entry and fires hashchange
setHashQuestionId(st, id) ==
  IF ~Truthy(id) THEN st
  ELSE IF st.hash = encodeURIComponent(id) THEN st
  ELSE [st EXCEPT !.hash = encodeURIComponent(id),
                  !.wrote = IF legacy THEN "assign" ELSE "replaceState"]

\* mutant: the decoded fragment is not trimmed
extractHashId_noTrim(h) ==
  IF ~Truthy(h) THEN NULL
  ELSE IF Decodable(h) THEN decodeURIComponent(h) ELSE h

extractHashId(h) ==
  IF ~Truthy(h) THEN NULL
  ELSE Trim(IF Decodable(h) THEN decodeURIComponent(h) ELSE h)

\* mutant: the stripped or prefixed form is returned without looking it up
resolveQuestionId_unchecked(idx, candidate) ==
  IF ~Truthy(candidate) \/ Len(idx) = 0 THEN NULL
  ELSE IF Has(idx, candidate) THEN candidate
  ELSE IF StartsWith(candidate, Q_PREFIX) THEN Slice(candidate, 2)
  ELSE Q_PREFIX \o candidate

\* mutant: the stripped or prefixed form is looked up before the candidate
resolveQuestionId_otherFormFirst(idx, candidate) ==
  IF ~Truthy(candidate) \/ Len(idx) = 0 THEN NULL
  ELSE IF StartsWith(candidate, Q_PREFIX) /\ Has(idx, Slice(candidate, 2))
       THEN Slice(candidate, 2)
  ELSE IF ~StartsWith(candidate, Q_PREFIX) /\ Has(idx, Q_PREFIX \o candidate)
       THEN Q_PREFIX \o candidate
  ELSE IF Has(idx, candidate) THEN candidate
  ELSE NULL

resolveQuestionId(idx, candidate) ==
  IF ~Truthy(candidate) \/ Len(idx) = 0 THEN NULL
  ELSE IF Has(idx, candidate) THEN candidate
  ELSE IF StartsWith(candidate, Q_PREFIX)
       THEN (IF Has(idx, Slice(candidate, 2)) THEN Slice(candidate, 2) ELSE NULL)
       ELSE (IF Has(idx, Q_PREFIX \o candidate) THEN Q_PREFIX \o candidate
             ELSE NULL)

\* the icons of both rows at the given indices get the glow (or, under
\* reduced motion, the is-active) class
triggerSocialGlow(st, indices) ==
  [st EXCEPT !.glow =
     @ \cup {icon \in SocialIcons :
               \E k \in 1..Len(indices) : icon[2] = indices[k]}]

\* const glowIndices = SOCIAL_GLOW_MAPPING.get(id); if (glowIndices) ...
glowIfMapped(st, id) ==
  LET glowIndices == SOCIAL_GLOW_MAPPING(variant, id)
  IN IF glowIndices # NoMapping THEN triggerSocialGlow(st, glowIndices) ELSE st

\* ---- the classes of the icons.  Spec records the calls of
\* triggerSocialGlow (in glow) and leaves the classes alone; SpecGlow follows
\* the classes, with the calls as its inputs.
\* an icon: its two classes, whether a handleAnimationEnd is registered on
\* it, and the is-active timeouts waiting
IconOff ==
  [glowClass |-> FALSE, listening |-> FALSE, isActive |-> FALSE, timers |-> 0]

\* mutant: the glow class is added without the animationend listener
glowIcon_noListener(node, shouldAnimate) ==
  IF ~shouldAnimate
    THEN [node EXCEPT !.isActive = TRUE, !.timers = @ + 1]
    ELSE [node EXCEPT !.glowClass = TRUE]

\* the forEach body of triggerSocialGlow.  Removing the class and adding it
\* again restarts the animation: the class is there afterwards
glowIcon(node, shouldAnimate) ==
  IF ~shouldAnimate
    THEN [node EXCEPT !.isActive = TRUE, !.timers = @ + 1]
    ELSE [node EXCEPT !.glowClass = TRUE, !.listening = TRUE]

\* triggerSocialGlow on the classes: both rows' icons at the indices
glowIcons(ic, indices, reduced) ==
  [icon \in SocialIcons |->
     IF \E k \in 1..Len(indices) : icon[2] = indices[k]
       THEN glowIcon(ic[icon], ~reduced) ELSE ic[icon]]

\* animationend on an icon: every registered handleAnimationEnd removes the
\* class and itself
handleAnimationEnd(node) ==
  IF node.listening THEN [node EXCEPT !.glowClass = FALSE, !.listening = FALSE]
  ELSE node

\* one timeout of the reduced-motion branch: () => remove('is-active')
removeIsActive(node) == [node EXCEPT !.isActive = FALSE, !.timers = @ - 1]

\* whether applyActiveQuestion goes past its guard
Accepts(st, id) ==
  IF variant = "main" THEN Truthy(id) ELSE Truthy(id) /\ Has(st.questions, id)

\* only the v2 coordinator ends with the glow
applyActiveQuestion(st, id, syncHash) ==
  IF ~Accepts(st, id) THEN st
  ELSE LET s1 == [st EXCEPT !.activeId = id]
           s2 == renderDesktopQuestion(s1, id)
           s3 == updateSidebarActive(s2, id)
           s4 == IF syncHash THEN setHashQuestionId(s3, id) ELSE s3
           s5 == syncMobileAccordion(s4, id)
       IN IF variant = "v2" THEN glowIfMapped(s5, id) ELSE s5

\* --------------------------------------------------------------- hydration
\* v2: Array.from(state.questions.values()).sort((a, b) => a.order - b.order)[0]
\* v1: state.flatList[0]          main: flatQuestions[0]
FirstQuestion(v, idx) ==
  IF v = "v2"
  THEN CHOOSE e \in {idx[k] : k \in 1..Len(idx)} :
         \A k \in 1..Len(idx) : e.order <= idx[k].order
  ELSE idx[1]

\* mutant: the hash is not consulted
InitialActiveId_ignoresHash(v, idx, h, current) ==
  IF ~Truthy(current) \/ ~Has(idx, current)
  THEN (IF Len(idx) > 0 THEN FirstQuestion(v, idx).id ELSE NULL)
  ELSE current

\* the active id chosen when the document arrives
InitialActiveId(v, idx, h, current) ==
  LET hashCandidate == resolveQuestionId(idx, extractHashId(h))
  IN IF Truthy(hashCandidate) THEN hashCandidate
     ELSE IF ~Truthy(current) \/ ~Has(idx, current)
          THEN (IF Len(idx) > 0 THEN FirstQuestion(v, idx).id ELSE NULL)
          ELSE current

\* mutant: the viewer is left as it was
showEmptyState_skipped(st) == st

\* dom.viewer.innerHTML = '<p class="question-empty">...</p>'
showEmptyState(st) == [st EXCEPT !.viewer = Message("empty")]

\* hydrate (part_000), renderDesktop followed by renderMobile (main.js)
hydrate(st, doc) ==
  LET idx == buildQuestionIndex(variant, doc)
      secs == IF variant = "v2" THEN ProcessV2(<<>>, doc).processedSections
              ELSE doc
      act == InitialActiveId(variant, idx, st.hash, st.activeId)
      sb == SidebarDom(variant, idx, secs)
      acc == AccordionDom(variant, idx, secs)
      s0 == [st EXCEPT !.questions = idx, !.activeId = act, !.sidebar = sb,
                       !.accordion = acc,
                       !.elements = IF variant = "main" THEN NoElements
                                    ELSE [sidebar |-> SidebarMap(sb),
                                          accordion |-> AccordionMap(acc)]]
      s1 == IF Truthy(act) THEN syncMobileAccordion(s0, act) ELSE s0
  IN IF Truthy(act) /\ Has(idx, act)
     THEN syncMobileAccordion(
            setHashQuestionId(
              updateSidebarActive(renderDesktopQuestion(s1, act), act), act),
            act)
     ELSE showEmptyState(s1)

state_sections(v, doc) ==
  IF v = "v2" THEN ProcessV2(<<>>, doc).processedSections
  ELSE IF v = "v1" THEN doc ELSE <<>>

\* ----------------------------------------------------------------- handlers
\* mutant: without the early return for the active id
handleSidebarClick_rerenders(st, id) ==
  IF ~Truthy(id) \/ (variant # "main" /\ ~Has(st.questions, id)) THEN st
  ELSE applyActiveQuestion(st, id, TRUE)

\* the early return for the active id only calls scrollQuestionToTop
handleSidebarClick(st, id) ==
  IF ~Truthy(id) \/ (variant # "main" /\ ~Has(st.questions, id)) THEN st
  ELSE IF id = st.activeId THEN st
  ELSE applyActiveQuestion(st, id, TRUE)

\* mutant: no return after the collapse of the open panel
handleAccordionClick_noReturn(st, k) ==
  LET acc == st.accordion
      map == st.elements.accordion
      id == acc[k].id
      p == IF variant = "main" THEN k ELSE map[id]
      closed == [st EXCEPT !.accordion =
                   [j \in 1..Len(acc) |->
                      IF acc[j].kind = "item" /\ acc[j].open
                        THEN collapsePanel(acc[j]) ELSE acc[j]]]
  IN IF variant # "main" /\ (~Truthy(id) \/ id \notin DOMAIN map) THEN st
     ELSE applyActiveQuestion([closed EXCEPT !.accordion[p] = expandPanel(@)],
                              id, TRUE)

\* a click on the trigger of the k-th node of the accordion
handleAccordionClick(st, k) ==
  LET acc == st.accordion
      map == st.elements.accordion
      id == acc[k].id
      p == IF variant = "main" THEN k ELSE map[id]
      others == IF variant = "main" THEN (1..Len(acc)) \ {k}
                ELSE {map[q] : q \in (DOMAIN map) \ {id}}
      collapsed == [j \in 1..Len(acc) |->
                      IF j \in others /\ acc[j].open THEN collapsePanel(acc[j])
                      ELSE acc[j]]
  IN IF variant # "main" /\ (~Truthy(id) \/ id \notin DOMAIN map) THEN st
     ELSE IF acc[p].open
          THEN [st EXCEPT !.accordion =
                  [collapsed EXCEPT ![p] = collapsePanel(@)]]
          ELSE LET opened == [st EXCEPT !.accordion =
                                [collapsed EXCEPT ![p] = expandPanel(@)]]
               IN IF variant = "main" /\ ~Truthy(id) THEN opened
                  ELSE IF variant = "v1"
                       THEN glowIfMapped(applyActiveQuestion(opened, id, TRUE),
                                         id)
                       ELSE applyActiveQuestion(opened, id, TRUE)

\* mutant: the coordinator is called with syncHash = true
handleHashChange_syncsHash(st) ==
  LET candidate == resolveQuestionId(st.questions, extractHashId(st.hash))
  IN IF ~Truthy(candidate) THEN st
     ELSE IF candidate = st.activeId THEN syncMobileAccordion(st, candidate)
     ELSE applyActiveQuestion(st, candidate, TRUE)

handleHashChange(st) ==
  LET candidate == resolveQuestionId(st.questions, extractHashId(st.hash))
  IN IF ~Truthy(candidate) THEN st
     ELSE IF candidate = st.activeId THEN syncMobileAccordion(st, candidate)
     ELSE IF variant = "main"
          THEN syncMobileAccordion(
                 updateSidebarActive(
                   renderDesktopQuestion([st EXCEPT !.activeId = candidate],
                                         candidate),
                   candidate),
                 candidate)
          ELSE applyActiveQuestion(st, candidate, FALSE)

\* the hashchange event that an assignment to location.hash fires: it is
\* queued by the assignment and handled before the next input
dispatchHashChange(st) ==
  IF st.wrote = "assign" THEN handleHashChange(st) ELSE st

\* v2: the error-state block replaces the viewer, both lists are cleared
showErrorState(st) ==
  [st EXCEPT !.viewer = Message("error"), !.sidebar = <<>>, !.accordion = <<>>]

\* mutant: the no-data message is not written
handleDataLoadError_skipped(st) == st

handleDataLoadError(st) == [st EXCEPT !.viewer = Message("nodata")]

\* navigateToQuestion: the index wraps at both ends; the coordinator is
\* called, then the accordion is synchronized once more on mobile
navigateToQuestion(st, targetIndex, questionIds, isMobile) ==
  IF Len(questionIds) = 0 THEN st
  ELSE LET wrappedIndex == IF targetIndex >= Len(questionIds) THEN 0
                           ELSE IF targetIndex < 0 THEN Len(questionIds) - 1
                           ELSE targetIndex
           targetId == questionIds[wrappedIndex + 1]
           s1 == applyActiveQuestion(st, targetId, TRUE)
       IN IF isMobile THEN syncMobileAccordion(s1, targetId) ELSE s1

\* Array.prototype.indexOf, counted from 0; -1 when absent
IndexOf(ids, id) ==
  IF \E k \in 1..Len(ids) : ids[k] = id
  THEN (CHOOSE k \in 1..Len(ids) :
          ids[k] = id /\ \A j \in 1..(k - 1) : ids[j] # id) - 1
  ELSE -1

\* `questionIndex` is declared nowhere in the script (the index is
\* state.questions): reading it throws a ReferenceError
questionIndexDeclared == FALSE

\* the test of the target and of the modifier keys: only the tag name,
\* ctrlKey and metaKey are read
KeyIgnored(ev) ==
  ev.tagName \in {"INPUT", "TEXTAREA"} \/ ev.ctrlKey \/ ev.metaKey

\* the switch on the key, were `questionIndex` the index
keySwitch(st, ev) ==
  LET questionIds == [k \in 1..Len(st.questions) |-> st.questions[k].id]
      currentIndex == IndexOf(questionIds, st.activeId)
  IN IF ev.key \in {"ArrowDown", "ArrowRight"}
     THEN navigateToQuestion(st, currentIndex + 1, questionIds, mobile)
     ELSE IF ev.key \in {"ArrowUp", "ArrowLeft"}
     THEN navigateToQuestion(st, currentIndex - 1, questionIds, mobile)
     ELSE IF ev.key = "Home"
     THEN navigateToQuestion(st, 0, questionIds, mobile)
     ELSE IF ev.key = "End"
     THEN navigateToQuestion(st, Len(questionIds) - 1, questionIds, mobile)
     ELSE st

\* mutant: the index is read from state.questions and the target and the
\* modifiers are not looked at
handleKeyboardNavigation_unguarded(st, ev) == keySwitch(st, ev)

\* handleKeyboardNavigation (v2): after the hint and the test of the target
\* and the modifiers, `Array.from(questionIndex.keys())` throws, which ends
\* the handler before the switch on the key and before navigateToQuestion
handleKeyboardNavigation(st, ev) ==
  IF KeyIgnored(ev) THEN st
  ELSE IF ~questionIndexDeclared THEN st
  ELSE keySwitch(st, ev)

\* mutant: the fragment is rewritten from the active id on every change
handleLayoutChange_rewritesHash(st, isMobile) ==
  IF Len(st.questions) = 0 THEN st
  ELSE IF isMobile
       THEN syncMobileAccordion(setHashQuestionId(st, st.activeId), st.activeId)
       ELSE updateSidebarActive(
              renderDesktopQuestion(setHashQuestionId(st, st.activeId),
                                    st.activeId),
              st.activeId)

handleLayoutChange(st, isMobile) ==
  IF Len(st.questions) = 0 THEN st
  ELSE IF isMobile THEN syncMobileAccordion(st, st.activeId)
  ELSE updateSidebarActive(renderDesktopQuestion(st, st.activeId), st.activeId)

\* the open panels of the accordion get their height measured again
refreshOpenPanels(st) ==
  LET acc == st.accordion
      map == st.elements.accordion
      panels == IF variant = "main"
                THEN {k \in 1..Len(acc) : acc[k].kind = "item"}
                ELSE {map[q] : q \in DOMAIN map}
  IN [st EXCEPT !.measured = @ \cup {k \in panels : acc[k].open}]

\* mutant: the panels are measured whatever the preference has become
handleMotionPreferenceChange_always(st, reduced) == refreshOpenPanels(st)

\* `reduced` is what prefersReducedMotion() returns after the change
handleMotionPreferenceChange(st, reduced) ==
  IF ~reduced THEN refreshOpenPanels(st) ELSE st

\* ------------------------------------------------------------------ actions
Commit(st) ==
  /\ questions' = st.questions
  /\ elements' = st.elements
  /\ activeId' = st.activeId
  /\ hash' = st.hash
  /\ sidebar' = st.sidebar
  /\ accordion' = st.accordion
  /\ viewer' = st.viewer
  /\ pending' = st.pending
  /\ wrote' = st.wrote
  /\ glow' = st.glow
  /\ icons' = icons
  /\ measured' = st.measured
  /\ formatting' = formatting
  /\ Len(st.pending) <= MaxPending

\* location.hash values a visitor opens or navigates to
HashInputs ==
  { <<>>, encodeURIComponent(ID_AB), encodeURIComponent(ID_QAB), ID_KIM,
    <<"%", "2", "0">> \o ID_KIM, <<"%">> }

\* the page as the script finds it; `l` tells whether the browser lacks
\* history.replaceState
InitPage(l) ==
  /\ variant \in Variants
  /\ phase = "loading"
  /\ FAQ = <<>>
  /\ questions = <<>>
  /\ sections = <<>>
  /\ activeId = NULL
  /\ hash \in HashInputs
  /\ sidebar = <<>>
  /\ accordion = <<>>
  /\ elements = NoElements
  /\ viewer = Message(IF variant = "v2" THEN "skeleton" ELSE "blank")
  /\ pending = <<>>
  /\ mobile \in BOOLEAN
  /\ reducedMotion \in BOOLEAN
  /\ last = "none"
  /\ legacy = l
  /\ wrote = "none"
  /\ glow = {}
  /\ icons = [icon \in SocialIcons |-> IconOff]
  /\ measured = {}
  /\ formatting = NoCall

Init == InitPage(FALSE)

InitLegacy == InitPage(TRUE)

\* loadFaqData resolves with an array of sections
Hydrate ==
  /\ phase = "loading"
  /\ \E doc \in Docs :
       /\ FAQ' = doc
       /\ sections' = state_sections(variant, doc)
       /\ Commit(dispatchHashChange(hydrate(Cur, doc)))
       /\ last' = "hydrate"
  /\ phase' = "ready"
  /\ UNCHANGED <<variant, mobile, reducedMotion, legacy>>

\* loadFaqData rejects: showErrorState and handleDataLoadError
FetchFail ==
  /\ phase = "loading"
  /\ phase' = "failed"
  /\ Commit(handleDataLoadError(IF variant = "v2" THEN showErrorState(Cur)
                                ELSE Cur))
  /\ last' = "fetchFail"
  /\ UNCHANGED <<variant, FAQ, sections, mobile, reducedMotion, legacy>>

\* a click on the k-th control of the sidebar
SidebarClickOn(k) ==
  /\ Commit(dispatchHashChange(handleSidebarClick(Cur, sidebar[k].id)))
  /\ last' = IF ~Accepts(Cur, sidebar[k].id) THEN "none"
             ELSE IF sidebar[k].id = activeId THEN "sidebarSame"
             ELSE "sidebarClick"
  /\ UNCHANGED <<variant, phase, FAQ, sections, mobile, reducedMotion, legacy>>

SidebarClick == \E k \in 1..Len(sidebar) : SidebarClickOn(k)

\* whether a click on the k-th trigger reaches applyActiveQuestion and passes
\* its guard
ClickActivates(st, k) ==
  LET id == st.accordion[k].id
      map == st.elements.accordion
  IN IF variant = "main"
     THEN ~st.accordion[k].open /\ Truthy(id)
     ELSE /\ Truthy(id)
          /\ id \in DOMAIN map
          /\ ~st.accordion[map[id]].open
          /\ Accepts(st, id)

\* whether a click on the k-th trigger takes the isOpen branch
ClickCollapses(st, k) ==
  LET id == st.accordion[k].id
      map == st.elements.accordion
  IN IF variant = "main" THEN st.accordion[k].open
     ELSE Truthy(id) /\ id \in DOMAIN map /\ st.accordion[map[id]].open

\* a click on the trigger of the k-th node of the accordion
AccordionClickOn(k) ==
  /\ accordion[k].kind = "item"
  /\ Commit(dispatchHashChange(handleAccordionClick(Cur, k)))
  /\ last' = IF ClickActivates(Cur, k) THEN "accordionClick"
             ELSE IF ClickCollapses(Cur, k) THEN "accordionCollapse"
             ELSE "none"
  /\ UNCHANGED <<variant, phase, FAQ, sections, mobile, reducedMotion, legacy>>

AccordionClick == \E k \in 1..Len(accordion) : AccordionClickOn(k)

\* the visitor changes the fragment (address bar, link, back/forward): the
\* browser sets location.hash and fires hashchange
HashChangeTo(h) ==
  /\ h # hash
  /\ LET st == [Cur EXCEPT !.hash = h]
         candidate == resolveQuestionId(questions, extractHashId(h))
     IN /\ Commit(handleHashChange(st))
        /\ last' = IF Truthy(candidate) /\ candidate # activeId
                   THEN "hashChange"
                   ELSE IF phase = "loading" THEN "earlyHashChange"
                   ELSE "none"
  /\ UNCHANGED <<variant, phase, FAQ, sections, mobile, reducedMotion, legacy>>

HashChange == \E h \in HashInputs : HashChangeTo(h)

\* the viewport crosses MOBILE_BREAKPOINT
LayoutChange ==
  /\ mobile' = ~mobile
  /\ Commit(handleLayoutChange(Cur, ~mobile))
  /\ last' = IF handleLayoutChange(Cur, ~mobile) # Cur THEN "layoutChange"
             ELSE IF phase = "loading" THEN "early"
             ELSE "none"
  /\ UNCHANGED <<variant, phase, FAQ, sections, reducedMotion, legacy>>

\* prefers-reduced-motion changes: handleMotionPreferenceChange only
\* re-measures open panels
MotionChange ==
  /\ reducedMotion' = ~reducedMotion
  /\ Commit(handleMotionPreferenceChange(Cur, ~reducedMotion))
  /\ last' = IF phase = "loading" THEN "early" ELSE "none"
  /\ UNCHANGED <<variant, phase, FAQ, sections, mobile, legacy>>

\* v2: the 150 ms timer of renderDesktopQuestion runs
\* updateDesktopQuestionContent with the entry it captured
FadeTimer ==
  /\ pending # <<>>
  /\ viewer' = updateDesktopQuestionContent(viewer, Get(questions, Head(pending)))
  /\ pending' = Tail(pending)
  /\ last' = "none"
  /\ wrote' = "none"
  /\ glow' = {}
  /\ measured' = {}
  /\ UNCHANGED <<variant, phase, FAQ, questions, sections, activeId, hash,
                 sidebar, accordion, elements, mobile, reducedMotion, legacy,
                 icons, formatting>>

\* v2 only: handleKeyboardNavigation.  After the hint and the input/modifier
\* test the handler reads questionIndex, a name no version declares: the
\* ReferenceError ends the handler before navigateToQuestion is reached.
NavKeys == {"ArrowDown", "ArrowUp", "ArrowLeft", "ArrowRight", "Home", "End"}

\* a keydown event: the key, the tag of its target and the modifiers held
KeyEventOf(key, held) ==
  [key |-> key,
   tagName |-> IF held \in {"INPUT", "TEXTAREA"} THEN held ELSE "BODY",
   ctrlKey |-> held = "ctrl", metaKey |-> held = "meta",
   altKey |-> held = "alt", shiftKey |-> held = "shift"]

\* keydown events: a navigation key alone on the page, or typed into a form
\* control, or pressed with one modifier held
KeyEvents ==
  {KeyEventOf(key, held) :
     key \in NavKeys,
     held \in {"none", "INPUT", "TEXTAREA", "ctrl", "meta", "alt", "shift"}}

KeyEvent(ev) ==
  /\ variant = "v2"
  /\ Commit(handleKeyboardNavigation(Cur, ev))
  /\ last' = IF KeyIgnored(ev) THEN "keyIgnored" ELSE "none"
  /\ UNCHANGED <<variant, phase, FAQ, sections, mobile, reducedMotion, legacy>>

\* a key pressed alone, on the page
KeyPress(key) == KeyEvent(KeyEventOf(key, "none"))

\* the events delivered: a next key and a jump key, each alone, typed into a
\* textarea, with a modifier the handler reads and with one it does not read
DeliveredKeyEvents ==
  {KeyEventOf(key, held) :
     key \in {"ArrowDown", "End"}, held \in {"none", "TEXTAREA", "meta", "shift"}}

Keydown == \E ev \in DeliveredKeyEvents : KeyEvent(ev)

Next ==
  \/ Hydrate
  \/ FetchFail
  \/ SidebarClick
  \/ AccordionClick
  \/ HashChange
  \/ LayoutChange
  \/ MotionChange
  \/ FadeTimer
  \/ Keydown

Spec == Init /\ [][Next]_vars

\* the same page in a browser without history.replaceState
SpecLegacy == InitLegacy /\ [][Next]_vars

\* ---- the glow of the social icons
GlowDoc == DocOf(<< <<ID_SPOTKANIACH, ID_KONTAKT>> >>)

InitGlow ==
  /\ InitPage(FALSE)
  /\ variant # "main"
  /\ hash = <<>>
  /\ ~mobile

HydrateGlow == Hydrate /\ FAQ' = GlowDoc

\* the call of triggerSocialGlow an activation of a mapped id makes (the last
\* statement of applyActiveQuestion in v2, of handleAccordionClick in v1)
GlowCall(id) ==
  /\ phase = "ready"
  /\ Has(questions, id)
  /\ SOCIAL_GLOW_MAPPING(variant, id) # NoMapping
  /\ LET indices == SOCIAL_GLOW_MAPPING(variant, id)
     IN /\ icons' = glowIcons(icons, indices, reducedMotion)
        /\ \A icon \in SocialIcons : icons'[icon].timers <= MaxPending
  /\ UNCHANGED <<variant, phase, FAQ, questions, sections, activeId, hash,
                 sidebar, accordion, elements, viewer, pending, mobile,
                 reducedMotion, last, legacy, wrote, glow, measured,
                 formatting>>

GlowCalls == \E id \in {ID_SPOTKANIACH, ID_KONTAKT} : GlowCall(id)

\* the glow animation of an icon ends
AnimationEnd(icon) ==
  /\ icons[icon].glowClass
  /\ icons' = [icons EXCEPT ![icon] = handleAnimationEnd(@)]
  /\ UNCHANGED <<variant, phase, FAQ, questions, sections, activeId, hash,
                 sidebar, accordion, elements, viewer, pending, mobile,
                 reducedMotion, last, legacy, wrote, glow, measured,
                 formatting>>

AnimationEnds == \E icon \in SocialIcons : AnimationEnd(icon)

\* a SOCIAL_REDUCED_MOTION_TIMEOUT timer of an icon runs
GlowTimeout(icon) ==
  /\ icons[icon].timers > 0
  /\ icons' = [icons EXCEPT ![icon] = removeIsActive(@)]
  /\ UNCHANGED <<variant, phase, FAQ, questions, sections, activeId, hash,
                 sidebar, accordion, elements, viewer, pending, mobile,
                 reducedMotion, last, legacy, wrote, glow, measured,
                 formatting>>

GlowTimeouts == \E icon \in SocialIcons : GlowTimeout(icon)

NextGlow ==
  \/ HydrateGlow
  \/ GlowCalls
  \/ AnimationEnds
  \/ GlowTimeouts
  \/ MotionChange

\* a running animation ends and an armed timer runs
SpecGlow ==
  /\ InitGlow
  /\ [][NextGlow]_vars
  /\ \A icon \in SocialIcons :
       WF_vars(AnimationEnd(icon)) /\ WF_vars(GlowTimeout(icon))

\* ---- formatBulletPoints on its own
InitFormat ==
  /\ InitPage(FALSE)
  /\ variant = "v2"
  /\ hash = <<>>
  /\ ~mobile
  /\ ~reducedMotion

CallFormat ==
  /\ ~formatting.returned
  /\ \E text \in FormatInputs :
       formatting' = [text |-> text, returned |-> TRUE,
                      result |-> formatBulletPoints(text)]
  /\ UNCHANGED <<variant, phase, FAQ, questions, sections, activeId, hash,
                 sidebar, accordion, elements, viewer, pending, mobile,
                 reducedMotion, last, legacy, wrote, glow, icons, measured>>

\* the next call
ReturnFormat ==
  /\ formatting.returned
  /\ formatting' = NoCall
  /\ UNCHANGED <<variant, phase, FAQ, questions, sections, activeId, hash,
                 sidebar, accordion, elements, viewer, pending, mobile,
                 reducedMotion, last, legacy, wrote, glow, icons, measured>>

NextFormat == CallFormat \/ ReturnFormat

SpecFormat == InitFormat /\ [][NextFormat]_vars

\* applyActiveQuestion called directly with any id, indexed or not
CallIds == IdPool \cup {<<"z">>}

\* what `last` says after a call that passed the guard
ActivateMark(syncHash) == IF syncHash THEN "activate" ELSE "activateNoSync"

\* the call repeats the one just made
Repeats(id, syncHash) == last = ActivateMark(syncHash) /\ activeId = id

Activate(id, syncHash) ==
  /\ phase = "ready"
  /\ Commit(dispatchHashChange(applyActiveQuestion(Cur, id, syncHash)))
  /\ last' = IF ~Accepts(Cur, id) THEN "none"
             ELSE IF Repeats(id, syncHash) THEN "activateAgain"
             ELSE ActivateMark(syncHash)
  /\ UNCHANGED <<variant, phase, FAQ, sections, mobile, reducedMotion, legacy>>

ActivateAny == \E id \in CallIds, syncHash \in BOOLEAN : Activate(id, syncHash)

NextApi == Next \/ ActivateAny

SpecApi == Init /\ [][NextApi]_vars

\* ------------------------------------------------------------ observations
OpenPanels == {k \in 1..Len(accordion) : accordion[k].open}

ActiveLinks ==
  {k \in 1..Len(sidebar) : sidebar[k].active \/ sidebar[k].ariaCurrent = "true"}

AccItems == {k \in 1..Len(accordion) : accordion[k].kind = "item"}

\* the ids of the document that can be used (truthy)
UniqueIds(doc) ==
  {FlatItems(doc)[k].id : k \in {j \in 1..Len(FlatItems(doc)) :
                                   Truthy(FlatItems(doc)[j].id)}}

\* the first item of the document, in document order, that carries `id`
FirstItem(doc, id) ==
  FlatItems(doc)[CHOOSE k \in 1..Len(FlatItems(doc)) :
                   /\ FlatItems(doc)[k].id = id
                   /\ \A j \in 1..(k - 1) : FlatItems(doc)[j].id # id]

\* the id of the first item of the document with a usable id, if any
FirstUsableId(doc) ==
  IF UniqueIds(doc) = {} THEN NULL
  ELSE FlatItems(doc)[CHOOSE k \in 1..Len(FlatItems(doc)) :
                        /\ Truthy(FlatItems(doc)[k].id)
                        /\ \A j \in 1..(k - 1) : ~Truthy(FlatItems(doc)[j].id)].id

\* the fragment percent-decoded, left as it is when it cannot be decoded
DecodedHash(h) == IF Decodable(h) THEN decodeURIComponent(h) ELSE h

Activations == {"sidebarClick", "accordionClick", "hashChange"}

Hydrating == phase = "loading" /\ phase' = "ready"

\* ------------------------------------------------------------------ claims

\* C1: whatever the document and the events, at most one sidebar control is
\* marked active (class or aria-current) and at most one panel is open.
C1_AtMostOneActiveAndOpen ==
  Cardinality(ActiveLinks) <= 1 /\ Cardinality(OpenPanels) <= 1

\* C2: applyActiveQuestion with an id that is not a key of the index changes
\* neither activeId, the hash, the sidebar, the viewer nor the panels.
C2_UnknownIdIsNoOp ==
  [][\A id \in CallIds : \A syncHash \in BOOLEAN :
       (~Has(questions, id) /\ Activate(id, syncHash))
         => UNCHANGED <<activeId, hash, sidebar, accordion, viewer, pending>>]_vars

\* C3 (as claimed): after any successful activation the hash, percent-decoded
\* and stripped of an optional leading 'q-', is the active id.
C3_HashRoundTrip ==
  last \in Activations
    => \/ DecodedHash(hash) = activeId
       \/ DecodedHash(hash) = Q_PREFIX \o activeId

\* C3 (amended): after an activation that syncs the hash (sidebar or accordion
\* click) the hash is the percent-encoded active id and decodes to it; after
\* an activation by hash change the hash is the visitor's, and it resolves to
\* the active id.
C3_HashNamesActiveId ==
  /\ last \in {"sidebarClick", "accordionClick"}
       => /\ hash = encodeURIComponent(activeId)
          /\ DecodedHash(hash) = activeId
  /\ last = "hashChange"
       => \/ Trim(DecodedHash(hash)) = activeId
          \/ Trim(DecodedHash(hash)) = Q_PREFIX \o activeId
          \/ Q_PREFIX \o Trim(DecodedHash(hash)) = activeId

\* C3 witness: an activation by hash change through the reverse form, the
\* hash 'X' selecting the indexed id 'q-X'
C3_Witness ==
  /\ last = "hashChange"
  /\ activeId = ID_QAB
  /\ hash = encodeURIComponent(ID_AB)

\* C4: after hydration of a non-empty document the sidebar entries, the
\* .acc-item entries and the distinct ids of the document are equally many.
C4_EntryCounts ==
  (phase = "ready" /\ FAQ # <<>>)
    => /\ Len(sidebar) = Cardinality(UniqueIds(FAQ))
       /\ Cardinality(AccItems) = Cardinality(UniqueIds(FAQ))

\* C5: the index holds exactly one record per distinct id of the document,
\* with the section, question and answer of the first item carrying that id.
C5_FirstOccurrenceWins ==
  phase = "ready"
    => /\ Keys(questions) = UniqueIds(FAQ)
       /\ \A id \in UniqueIds(FAQ) :
            /\ Cardinality({k \in 1..Len(questions) : questions[k].id = id}) = 1
            /\ Get(questions, id).section = FirstItem(FAQ, id).section
            /\ Get(questions, id).question = FirstItem(FAQ, id).question
            /\ Get(questions, id).answer = FirstItem(FAQ, id).answer

\* C6: activeId is null or a key of the index, in every reachable state.
C6_ActiveIdIndexed == activeId = NULL \/ activeId \in Keys(questions)

\* C6 witness: a hash change made a question other than the first active
C6_Witness ==
  /\ last = "hashChange"
  /\ activeId \in Keys(questions)
  /\ activeId # FirstUsableId(FAQ)

\* C7: hydration makes active the id the hash resolves to when it resolves to
\* an indexed id, else the first accepted item of the document (order 0 in
\* v2), else null.
C7_InitialActiveId ==
  [][Hydrating
       => LET c == resolveQuestionId(questions', extractHashId(hash))
          IN /\ activeId' = IF Truthy(c) /\ c \in Keys(questions') THEN c
                            ELSE FirstUsableId(FAQ')
             /\ (variant = "v2" /\ Truthy(activeId') /\ ~Truthy(c))
                  => Get(questions', activeId').order = 0]_vars

\* C7 witness: hydrated on a hash that selected a question other than the
\* first of the document
C7_Witness ==
  /\ last = "hydrate"
  /\ Truthy(activeId)
  /\ activeId # FirstUsableId(FAQ)

\* C8 (as claimed): the hash resolves to the indexed id X exactly when its
\* decoded, trimmed value is X or 'q-' followed by X.
C8_ResolvesIffEitherForm ==
  \A X \in Keys(questions) :
    (resolveQuestionId(questions, extractHashId(hash)) = X)
      <=> (Trim(DecodedHash(hash)) \in {X, Q_PREFIX \o X})

\* C8 (amended): the hash resolves to the indexed id X exactly when its
\* decoded, trimmed value v is X, or v is not indexed and is 'q-' followed
\* by X, or v is not indexed, does not start with 'q-', and X is 'q-'
\* followed by v; a hash of none of these forms resolves to no id.
C8_ResolvesIffAcceptedForm ==
  LET v == Trim(DecodedHash(hash))
      r == resolveQuestionId(questions, extractHashId(hash))
  IN /\ \A X \in Keys(questions) :
          (r = X) <=> \/ v = X
                      \/ v \notin Keys(questions) /\ v = Q_PREFIX \o X
                      \/ /\ v \notin Keys(questions)
                         /\ ~StartsWith(v, Q_PREFIX)
                         /\ X = Q_PREFIX \o v
     /\ r = NULL \/ r \in Keys(questions)

\* C8 witness: the visitor went to '#q-X' with X indexed and 'q-X' not, and
\* X became the active id
C8_Witness ==
  /\ last = "hashChange"
  /\ hash = encodeURIComponent(ID_QAB)
  /\ activeId = ID_AB
  /\ ID_QAB \notin Keys(questions)

\* C9: hydrating a document with no usable id renders no sidebar and no
\* accordion entry, shows the empty-state message, leaves activeId null and
\* does not write the hash.
C9_EmptyDocument ==
  [][(Hydrating /\ UniqueIds(FAQ') = {})
       => /\ sidebar' = <<>>
          /\ accordion' = <<>>
          /\ viewer'.kind = "empty"
          /\ activeId' = NULL
          /\ hash' = hash]_vars

\* C9 witness: hydrated a document of items without usable ids, opened with
\* a hash
C9_Witness ==
  /\ last = "hydrate"
  /\ FAQ # <<>>
  /\ FlatItems(FAQ) # <<>>
  /\ UniqueIds(FAQ) = {}
  /\ Truthy(hash)
  /\ viewer.kind = "empty"

\* C10: right after a successful activation exactly one panel is open, the
\* panel of the activated id.
C10_ExactlyTargetOpen ==
  last \in Activations
    => /\ Cardinality(OpenPanels) = 1
       /\ \A k \in OpenPanels : accordion[k].id = activeId

\* --------------------------------------------------- keyboard observations
NextKeys == {"ArrowDown", "ArrowRight"}

PrevKeys == {"ArrowUp", "ArrowLeft"}

\* the order of an indexed id, and the id of the record with a given order
OrderOf(id) == Get(questions, id).order

ByOrder(n) ==
  (CHOOSE e \in {questions[k] : k \in 1..Len(questions)} : e.order = n).id

\* the views and the fragment all name `id`
SyncedTo(id) ==
  /\ hash' = encodeURIComponent(id)
  /\ \A k \in 1..Len(sidebar') : sidebar'[k].active <=> sidebar'[k].id = id
  /\ \A k \in 1..Len(accordion') :
       accordion'[k].kind = "item" => (accordion'[k].open <=> accordion'[k].id = id)
  /\ \/ viewer'.id = id
     \/ (pending' # <<>> /\ pending'[Len(pending')] = id)

\* C11: with the index hydrated, ArrowDown/ArrowRight make activeId the record
\* with the next order, wrapping from the last to the first, and
\* ArrowUp/ArrowLeft the record with the previous order, wrapping from the
\* first to the last.
C11_ArrowKeysWrap ==
  [][\A key \in NextKeys \cup PrevKeys :
       (KeyPress(key) /\ Len(questions) > 0 /\ Truthy(activeId))
         => LET n == Len(questions)
                o == OrderOf(activeId)
            IN activeId' = ByOrder(IF key \in NextKeys THEN (o + 1) % n
                                   ELSE (o + n - 1) % n)]_vars

\* C12: with the index hydrated, Home makes activeId the first record by order
\* and End the last one, from any active id, and the views and the fragment
\* follow.
C12_HomeEndJump ==
  [][\A key \in {"Home", "End"} :
       (KeyPress(key) /\ Len(questions) > 0)
         => LET target == ByOrder(IF key = "Home" THEN 0
                                  ELSE Len(questions) - 1)
            IN activeId' = target /\ SyncedTo(target)]_vars

\* C13: once the fetch of the document has failed, hydration never runs and the
\* page stays as the failure left it under every later event: empty index, no
\* active id, no sidebar or accordion entry, and the no-data message alone in
\* the viewer.
C13_FetchFailureIsFinal ==
  [][/\ phase = "failed" => phase' = "failed"
     /\ phase' = "failed"
          => /\ FAQ' = <<>>
             /\ questions' = <<>>
             /\ activeId' = NULL
             /\ sidebar' = <<>>
             /\ accordion' = <<>>
             /\ pending' = <<>>
             /\ viewer' = Message("nodata")]_vars

\* an event has been handled after the failure
C13_Witness ==
  /\ phase = "failed"
  /\ last = "none"
  /\ viewer = Message("nodata")

\* -------------------------------------------------------- view observations
\* the accordion shows the answer of `id` expanded: its panel is open, or it
\* is rendered as a static block, which has no panel to collapse
ExpandedIn(acc, id) ==
  \E k \in 1..Len(acc) :
    acc[k].id = id /\ (acc[k].kind = "static" \/ acc[k].open)

\* the sidebar highlights `id` and nothing else
HighlightedIn(sb, id) ==
  /\ \E k \in 1..Len(sb) :
       sb[k].id = id /\ sb[k].active /\ sb[k].ariaCurrent = "true"
  /\ \A k \in 1..Len(sb) :
       (sb[k].active \/ sb[k].ariaCurrent = "true") => sb[k].id = id

\* the viewer shows the article of `id`, or the fade-out that ends with it
\* is the one started last
ShownIn(v, pend, id) ==
  \/ (v.kind = "article" /\ v.id = id)
  \/ (pend # <<>> /\ pend[Len(pend)] = id)

C15_NoHistoryEntry ==
  [][~legacy
       => /\ wrote' \in {"none", "replaceState"}
          /\ wrote' = "replaceState"
               => /\ hash' # hash
                  /\ hash # encodeURIComponent(activeId')]_vars

\* an activation of the id the fragment already names: a collapsed panel is
\* opened again
C15_Witness ==
  /\ ~legacy
  /\ last = "accordionClick"
  /\ wrote = "none"
  /\ hash = encodeURIComponent(activeId)

\* C16: every fragment the program writes is the percent-encoded active id,
\* unprefixed; after the hydration of a document with a usable question the
\* fragment is the encoded active id, also when the page was opened with the
\* 'q-' form of it.
C16_WritesEncodedActiveId ==
  [][/\ wrote' # "none" => hash' = encodeURIComponent(activeId')
     /\ (Hydrating /\ Truthy(activeId'))
          => hash' = encodeURIComponent(activeId')]_vars

\* the page was opened with '#q-a%20b' on a document without the id 'q-a b'
C16_Witness ==
  /\ last = "hydrate"
  /\ wrote # "none"
  /\ activeId = ID_AB
  /\ FirstUsableId(FAQ) # ID_AB
  /\ ID_QAB \notin Keys(questions)
  /\ hash = encodeURIComponent(ID_AB)

\* C17: a change of layout never alters the active id or the fragment; it only
\* renders the active id into the view that became visible: its accordion
\* panel is open after a change to mobile, the viewer and the sidebar show it
\* after a change to desktop.
C17_LayoutChangeKeepsActiveId ==
  [][LayoutChange
       => /\ activeId' = activeId
          /\ hash' = hash
          /\ wrote' = "none"
          /\ (mobile' /\ Truthy(activeId))
               => /\ ExpandedIn(accordion', activeId)
                  /\ UNCHANGED <<sidebar, viewer, pending>>
          /\ (~mobile' /\ Truthy(activeId))
               => /\ ShownIn(viewer', pending', activeId)
                  /\ HighlightedIn(sidebar', activeId)
                  /\ UNCHANGED accordion]_vars

\* the change to mobile has opened again the panel the visitor had collapsed
C17_Witness ==
  /\ last = "layoutChange"
  /\ mobile
  /\ Truthy(activeId)
  /\ activeId \notin STATIC_ACCORDION_IDS
  /\ ExpandedIn(accordion, activeId)

\* C18: in every state after hydration, a non-null active id has its accordion
\* panel expanded.
C18_ActivePanelExpanded ==
  (phase = "ready" /\ Truthy(activeId)) => ExpandedIn(accordion, activeId)

\* C18, as the handlers have it: the active id is expanded in the accordion
\* after every step, except that a click on its open trigger collapses it, and
\* it then stays collapsed, with the same active id, until a step opens it
\* again.
C18_ActivePanelExpandedUntilCollapsed ==
  [][(phase' = "ready" /\ Truthy(activeId'))
       => \/ ExpandedIn(accordion', activeId')
          \/ /\ activeId' = activeId
             /\ \/ AccordionClick /\ ExpandedIn(accordion, activeId)
                \/ ~ExpandedIn(accordion, activeId) /\ accordion' = accordion]_vars

\* a sidebar click has opened the panel of the question it activated
C18_Witness ==
  /\ last = "sidebarClick"
  /\ activeId \notin STATIC_ACCORDION_IDS
  /\ \E k \in OpenPanels : accordion[k].id = activeId

\* C19: after the hydration of a document with a usable question, and after
\* every later event, exactly one sidebar control is marked active (class and
\* aria-current="true"), and it is the control of the active id.
C19_ExactlyOneActiveLink ==
  (phase = "ready" /\ UniqueIds(FAQ) # {})
    => /\ Cardinality(ActiveLinks) = 1
       /\ \A k \in ActiveLinks :
            /\ sidebar[k].id = activeId
            /\ sidebar[k].active
            /\ sidebar[k].ariaCurrent = "true"

\* the icons of both rows at the indices mapped to `id`
MappedIcons(id) ==
  LET indices == SOCIAL_GLOW_MAPPING(variant, id)
  IN {icon \in SocialIcons : \E k \in 1..Len(indices) : icon[2] = indices[k]}

\* C20: whenever a question with a social-icon mapping becomes the active
\* question, by whatever route, the glow is triggered on exactly the mapped
\* icons of both rows; a question without a mapping never triggers it.
C20_GlowOnEveryActivation ==
  [][/\ (activeId' # activeId /\ Truthy(activeId'))
          => glow' = MappedIcons(activeId')
     /\ glow' # {} => glow' = MappedIcons(activeId')]_vars

\* the target of the event is a text input or a textarea, or a modifier key
\* is held
Blocked(ev) ==
  \/ ev.tagName \in {"INPUT", "TEXTAREA"}
  \/ ev.ctrlKey \/ ev.metaKey \/ ev.altKey \/ ev.shiftKey

\* C21: a navigation keydown whose target is a text input or a textarea, or
\* that comes with Ctrl, Meta, Alt or Shift held, is ignored: the active id,
\* the fragment and both views are unchanged.
C21_BlockedKeydownIgnored ==
  [][(/\ variant = "v2"
      /\ last' \in {"none", "keyIgnored"}
      /\ \E ev \in KeyEvents : Blocked(ev) /\ KeyEvent(ev))
       => /\ UNCHANGED <<activeId, hash, sidebar, accordion, viewer, pending>>
          /\ wrote' = "none"
          /\ glow' = {}]_vars

\* a navigation key went to a form control, or came with Ctrl or Meta, on a
\* hydrated page with more than one question
C21_Witness ==
  /\ last = "keyIgnored"
  /\ phase = "ready"
  /\ Len(questions) > 1

\* C22: in every state the visual state and the ARIA state agree: a panel has
\* the open class iff its trigger has aria-expanded="true" iff the panel has
\* aria-hidden="false", and a sidebar control that has been highlighted has
\* the active class iff it has aria-current="true".
C22_AriaAgreesWithVisual ==
  /\ \A k \in AccItems :
       /\ accordion[k].open <=> accordion[k].ariaExpanded = "true"
       /\ accordion[k].open <=> accordion[k].ariaHidden = "false"
  /\ \A k \in 1..Len(sidebar) :
       sidebar[k].ariaCurrent # "none"
         => (sidebar[k].active <=> sidebar[k].ariaCurrent = "true")
C24_SameIdClickRendersNothing ==
  [][(/\ last' = "sidebarSame"
      /\ \E k \in 1..Len(sidebar) :
           sidebar[k].id = activeId /\ SidebarClickOn(k))
       => /\ UNCHANGED <<activeId, hash, sidebar, accordion, viewer, pending>>
          /\ wrote' = "none"
          /\ glow' = {}]_vars

\* the active control was clicked while the fragment names something else
C24_Witness ==
  /\ last = "sidebarSame"
  /\ \E k \in 1..Len(sidebar) : sidebar[k].active /\ sidebar[k].id = activeId
  /\ hash # encodeURIComponent(activeId)

\* C25: the viewer holds at most one question article.
C25_SingleArticle == viewer.articles <= 1

\* a click replaced the article the viewer held by another one
C25_Witness ==
  /\ last = "sidebarClick"
  /\ pending = <<>>
  /\ viewer.kind = "article"
  /\ viewer.id = activeId
  /\ viewer.articles = 1

\* the open panels among the items of `id`
OpenPanelsOf(id) == {k \in OpenPanels : accordion[k].id = id}

\* C26: one user action never toggles a panel twice.  A click on the trigger
\* of a closed panel leaves that panel open once the whole chain has run, the
\* hashchange of a direct assignment to location.hash included; a hashchange
\* that resolves to an id whose panel is open, and a layout change while the
\* panel of the active id is open, leave that panel open.
C26_NoDoubleToggle ==
  /\ [][\A k \in AccItems :
          (~accordion[k].open /\ AccordionClickOn(k)) => accordion'[k].open]_vars
  /\ [][\A h \in HashInputs :
          HashChangeTo(h)
            => \A k \in OpenPanelsOf(resolveQuestionId(questions,
                                                        extractHashId(h))) :
                 accordion'[k].open]_vars
  /\ [][LayoutChange => \A k \in OpenPanelsOf(activeId) : accordion'[k].open]_vars

\* C27: whenever no deferred update of the viewer is waiting for its timer,
\* the viewer holds the article of the active id, whatever the order of
\* activations, changes of the motion preference and timers.
C27_ViewerShowsActiveId ==
  (phase = "ready" /\ Truthy(activeId) /\ pending = <<>>)
    => (viewer.kind = "article" /\ viewer.id = activeId)

\* C28: an open accordion panel is the panel of the active id, also when the
\* active id is rendered as a static block.
C28_OpenPanelIsActive ==
  \A k \in OpenPanels : accordion[k].id = activeId

\* C29: a click on the trigger of the panel that is open collapses it and
\* leaves no panel open; activeId, the fragment, the highlight and the viewer
\* stay as they are, nothing is written to the address and no icon glows.
C29_ClickOnOpenTriggerCollapses ==
  [][\A k \in OpenPanels :
       AccordionClickOn(k)
         => /\ OpenPanels' = {}
            /\ UNCHANGED <<activeId, hash, sidebar, viewer, pending>>
            /\ wrote' = "none"
            /\ glow' = {}]_vars

\* the panel of the active id has been collapsed by a click
C29_Witness ==
  /\ last = "accordionCollapse"
  /\ OpenPanels = {}
  /\ \E k \in AccItems : accordion[k].id = activeId

\* C30: the events delivered between the binding of the listeners and the
\* hydration (hash changes, layout changes, changes of the motion preference)
\* change nothing of the page; the hydration then takes the initial active
\* id from the fragment the address has at that time.
C30_EarlyEventsChangeNothing ==
  /\ [][(phase = "loading" /\ phase' = "loading")
         => /\ UNCHANGED <<questions, elements, activeId, sidebar, accordion,
                           viewer, pending>>
            /\ wrote' = "none"
            /\ glow' = {}]_vars
  /\ [][Hydrating
         => LET current == resolveQuestionId(questions', extractHashId(hash))
            IN Truthy(current) => activeId' = current]_vars

\* a hash change has been delivered before the hydration
C30_Witness ==
  /\ phase = "loading"
  /\ last = "earlyHashChange"
  /\ hash = encodeURIComponent(ID_AB)
  /\ questions = <<>>

\* C31: applyActiveQuestion called a second time, right after a call with the
\* same indexed id and the same syncHash, leaves activeId, the highlighted
\* controls, the open panels and the fragment as the first call left them, and
\* writes nothing to the address.
C31_ActivateTwiceIsOnce ==
  [][\A id \in CallIds : \A syncHash \in BOOLEAN :
       (/\ last' = "activateAgain"
        /\ Repeats(id, syncHash)
        /\ Has(questions, id)
        /\ Activate(id, syncHash))
         => /\ activeId' = activeId
            /\ ActiveLinks' = ActiveLinks
            /\ OpenPanels' = OpenPanels
            /\ hash' = hash
            /\ wrote' = "none"]_vars

\* the same call has been made twice in a row, the first one having moved the
\* active id and written the fragment
C31_Witness ==
  /\ last = "activateAgain"
  /\ Has(questions, activeId)
  /\ hash = encodeURIComponent(activeId)
  /\ \E k \in OpenPanels : accordion[k].id = activeId

\* the place of the first item of the document that carries `id`
FirstPlace(doc, id) ==
  CHOOSE k \in 1..Len(FlatItems(doc)) :
    /\ FlatItems(doc)[k].id = id
    /\ \A j \in 1..(k - 1) : FlatItems(doc)[j].id # id

\* C32: the records of the index built by buildQuestionIndex (the v2 build,
\* the one whose records carry `order`) have the order values 0..n-1, each
\* once, the k-th record in iteration order having order k-1; the ids are
\* the truthy ids of the document, each once, in the order of their first
\* occurrences over sections and then items.
C32_OrderIsEncounterOrder ==
  (variant = "v2" /\ phase = "ready")
    => /\ \A k \in 1..Len(questions) : questions[k].order = k - 1
       /\ \A i, j \in 1..Len(questions) :
            questions[i].id = questions[j].id => i = j
       /\ Keys(questions) = UniqueIds(FAQ)
       /\ \A i, j \in 1..Len(questions) :
            i < j => FirstPlace(FAQ, questions[i].id)
                       < FirstPlace(FAQ, questions[j].id)

\* two records accepted from two sections
C32_Witness ==
  /\ variant = "v2"
  /\ phase = "ready"
  /\ Len(questions) = 2
  /\ questions[1].section # questions[2].section
  /\ questions[2].order = 1

\* C33: the answer the viewer renders for a question is the answer its
\* accordion element renders.
C33_SameAnswerInBothViews ==
  viewer.kind = "article"
    => \A k \in 1..Len(accordion) :
         (accordion[k].id = viewer.id /\ k = FirstOf(accordion, viewer.id))
           => accordion[k].answer = viewer.answer

\* C34: on every hash change the id the fragment resolves to is null or a key
\* of the index, and a fragment that names a key resolves to that key (and
\* makes it the active id), also when the index holds its other form, with or
\* without the 'q-' prefix.
C34_ResolvesToKeyExactFirst ==
  [][\A h \in HashInputs :
       HashChangeTo(h)
         => LET candidate == extractHashId(h)
                resolved == resolveQuestionId(questions, candidate)
            IN /\ resolved = NULL \/ resolved \in Keys(questions)
               /\ candidate \in Keys(questions)
                    => resolved = candidate /\ activeId' = candidate]_vars

\* the index holds both forms and the prefixed fragment made the prefixed id
\* active
C34_Witness ==
  /\ last = "hashChange"
  /\ {ID_AB, ID_QAB} \subseteq Keys(questions)
  /\ hash = encodeURIComponent(ID_QAB)
  /\ activeId = ID_QAB

\* C35: a change of the reduced-motion preference leaves activeId, the
\* fragment, the sidebar, the viewer and its deferred updates and the panels
\* as they are; it measures the open panels again when the preference has
\* been switched off and does nothing when it has been switched on.
C35_MotionChangeOnlyMeasures ==
  [][MotionChange
       => /\ UNCHANGED <<activeId, hash, sidebar, accordion, viewer, pending>>
          /\ wrote' = "none"
          /\ glow' = {}
          /\ measured' = IF reducedMotion' THEN {} ELSE OpenPanels]_vars

\* the preference has been switched off while a panel was open
C35_Witness ==
  /\ ~reducedMotion
  /\ measured # {}
  /\ measured = OpenPanels
  /\ Truthy(activeId)

\* ------------------------------------------------------ text observations
IsBulletLine(l) == StartsWith(Trim(l), BULLET)

\* the lines that open a new element of the result: the first line of each
\* maximal run of bullet lines, and every other line that is not blank
Opening(lines) ==
  {i \in 1..Len(lines) :
     IF IsBulletLine(lines[i]) THEN i = 1 \/ ~IsBulletLine(lines[i - 1])
     ELSE Trim(lines[i]) # <<>>}

NthOpening(lines, k) ==
  CHOOSE i \in Opening(lines) :
    Cardinality({m \in Opening(lines) : m < i}) = k - 1

\* the last line of the run of bullet lines that starts at line i
RunEnd(lines, i) ==
  CHOOSE j \in i..Len(lines) :
    /\ \A m \in i..j : IsBulletLine(lines[m])
    /\ j = Len(lines) \/ ~IsBulletLine(lines[j + 1])

\* the element line i opens: the list of its run, or the line itself
ElementAt(lines, i) ==
  IF IsBulletLine(lines[i])
  THEN UlOf([m \in 1..(RunEnd(lines, i) - i + 1) |->
               Trim(Slice(Trim(lines[i + m - 1]), 2))])
  ELSE lines[i]

\* C36: formatBulletPoints returns a value that is not a string, and the
\* empty string, unchanged; of a string it returns, in order, one <ul> for
\* each maximal run of consecutive bullet lines, with one <li> per line of
\* the run in order, and every other line that is not blank, unchanged; blank
\* lines are dropped.
C36_FormatBulletPoints ==
  formatting.returned
    => LET text == formatting.text
           result == formatting.result
       IN IF ~text.isString \/ text.lines = <<>> THEN result = text
          ELSE /\ result.isString
               /\ Len(result.lines) = Cardinality(Opening(text.lines))
               /\ \A k \in 1..Len(result.lines) :
                    result.lines[k]
                      = ElementAt(text.lines, NthOpening(text.lines, k))

\* a run of two bullet lines followed by a line of text has been formatted
C36_Witness ==
  /\ formatting.returned
  /\ formatting.text = Str(<< <<"*", " ", "x">>, <<" ", "*", " ", "y", " ">>,
                              <<"t">> >>)
  /\ Len(formatting.result.lines) = 2

====
